---- MODULE Spec2Model ----
(***************************************************************************)
(* A model of the SWIM failure detector skeleton of swim.go: construction  *)
(* (New), the facade (Start, Join, ShutDown), the round loop of            *)
(* startFailureDetector with probe and its helper goroutine, and the       *)
(* message dispatcher (handle, handlePbk, pingHandler).                    *)
(*                                                                         *)
(* MemberMap, PriorityPBStore and MessageEndpoint are used by swim.go but  *)
(* defined in other files of the package; they are modelled from the       *)
(* specification (sections 3, 4.1, 4.2 and 6).                             *)
(*                                                                         *)
(* Time is in milliseconds and relative: every pending timer holds the     *)
(* time left until it expires, and Tick advances all of them to the next   *)
(* expiry.                                                                 *)
(***************************************************************************)
EXTENDS Integers, Sequences, FiniteSets

(* ------------------------------ bounds -------------------------------- *)

\* Registry mutations (MarkAlive / MarkSuspect / Confirm) performed in one run.
MaxRegistryOps == 2

\* ShutDown calls made in one run.
MaxShutDowns == 2

(* ----------------------- program constants, inputs --------------------- *)

\* probe's helper goroutine: time.Sleep(1 * time.Second), in milliseconds.
HelperSleepMs == 1000

\* Member.Status
Alive == "Alive"
Suspect == "Suspect"
Dead == "Dead"

\* Addresses of the peers the registry may hold.
Addrs == {"m1", "m2"}

\* Seed lists handed to Join.
SeedLists == {<<"m1">>, <<"m1", "m2">>}

\* Incarnation numbers a status claim may carry.
Incarnations == {0}

Cfg(t, ackTimeOut) ==
  [ MaxlocalCount |-> 2, T |-> t, AckTimeOut |-> ackTimeOut, K |-> 2,
    BindAddress |-> "127.0.0.1", BindPort |-> 5000 ]

\* Config values New is called with.  T = 50 with AckTimeOut = 100 is the
\* misconfiguration of the specification's scenario, T = AckTimeOut = 500 the
\* boundary, and T = 500, 1000, 2000 lie below, at and above the helper's sleep.
Configs ==
  { Cfg(50, 100), Cfg(500, 500), Cfg(500, 100), Cfg(1000, 100), Cfg(2000, 100) }

\* The iteration order of a new MemberMap.
InitialOrder == <<"m1", "m2">>

\* pb.PiggyBack.Type
PiggyBack_Alive == "PiggyBack_Alive"
PiggyBack_Confirm == "PiggyBack_Confirm"
PiggyBack_Suspect == "PiggyBack_Suspect"

NoMember == [Status |-> "absent", Incarnation |-> 0]

\* A pointer is the sequence of what it points to: Nil, or Ref(x).  Optional
\* values ("none yet") are written the same way.
Nil == <<>>
Ref(x) == <<x>>

VARIABLES
  config,       \* the *Config handed to New
  newPc,        \* position inside New: call, struct, transport, endpoint, ready, panicked
  panicCause,   \* why the process panicked: none, config, transport, endpoint,
                \* closedchan, nilpointer
  built,        \* the parts of the SWIM value New has created so far
  memberMap,    \* s.memberMap: address -> [Status, Incarnation], or NoMember
  order,        \* s.memberMap's iteration order, reshuffled by Reset
  regOps,       \* registry mutations performed so far
  priorityPBStore, \* s.priorityPBStore: <<[pbk, left]>>, highest priority first
  pbkStore,     \* s.pbkStore: New never sets it, so it stays the nil interface
  handled,      \* the last message given to handle: Ref([msg, outcome, getErr]), or Nil
  sent,         \* the messageEndpoint.Send calls since that handle call began, in
                \* order; only pingHandler calls Send
  startCalled,  \* Start() has returned
  joinResult,   \* the last Join: Ref([peers, attempted, exchanged, err]), or Nil
  shutDowns,    \* ShutDown calls: [blocked, returned]
  sfdCaller,    \* the caller of startFailureDetector: none, waiting (<-quitFD), returned
  fdPc,         \* the loop goroutine: none, top, range, select (inside probe)
  members,      \* the loop's snapshot (a sequence of Member values)
  idx,          \* position of the range loop in the snapshot
  endCh,        \* the current probe's end channel: [buf, closed]
  helper,       \* the current probe's helper goroutine: sleep left, or -1 when done
  timerT,       \* the current probe's timer T: time left, or -1 when not armed
  orphans,      \* helper goroutines of probes that returned: sleep left of each
  lastProbe,    \* the last probe that returned: Ref([member, outcome]), or Nil
  acksSeen      \* the request ids of the Acks handle has dispatched while the
                \* current probe waits in its select

vars == << config, newPc, panicCause, built, memberMap, order, regOps,
           priorityPBStore, pbkStore, handled, sent, startCalled, joinResult, shutDowns, sfdCaller,
           fdPc, members, idx, endCh, helper, timerT, orphans, lastProbe,
           acksSeen >>

newVars == << config, newPc, panicCause, built >>
registryVars == << memberMap, order, regOps, priorityPBStore >>
handleVars == << pbkStore, handled, sent >>
facadeVars == << startCalled, joinResult, shutDowns, sfdCaller >>
loopVars == << fdPc, members, idx >>
probeVars == << endCh, helper, timerT, orphans, lastProbe, acksSeen >>

NoChan == [buf |-> 0, closed |-> FALSE]

\* The process is up: New returned a SWIM value and no goroutine has panicked.
Running == newPc = "ready" /\ panicCause = "none"

(* ------------------------------- New ----------------------------------- *)

\* NewValidate with the check made last, after New has built everything.
NewValidateAfterBuild ==
  /\ newPc = "call"
  /\ IF config.T < config.AckTimeOut
       THEN /\ newPc' = "panicked"
            /\ panicCause' = "config"
            /\ built' = {"memberMap", "priorityPBStore", "quitFD",
                         "packetTransport", "messageEndpoint"}
       ELSE /\ newPc' = "struct"
            /\ UNCHANGED << panicCause, built >>
  /\ UNCHANGED config
  /\ UNCHANGED << registryVars, handleVars, facadeVars, loopVars, probeVars >>

\* swim.go:66-69: the configuration check, the first statement of New.
NewValidate ==
  /\ newPc = "call"
  /\ IF config.T < config.AckTimeOut
       THEN /\ newPc' = "panicked"
            /\ panicCause' = "config"
       ELSE /\ newPc' = "struct"
            /\ UNCHANGED panicCause
  /\ UNCHANGED << config, built >>
  /\ UNCHANGED << registryVars, handleVars, facadeVars, loopVars, probeVars >>

\* swim.go:71-77: the SWIM literal: NewMemberMap, NewPriorityPBStore, make(chan).
NewStruct ==
  /\ newPc = "struct"
  /\ built' = built \cup {"memberMap", "priorityPBStore", "quitFD"}
  /\ newPc' = "transport"
  /\ UNCHANGED << config, panicCause >>
  /\ UNCHANGED << registryVars, handleVars, facadeVars, loopVars, probeVars >>

\* swim.go:86-94: NewPacketTransport binds the address; an error is log.Panic'ed.
NewTransport ==
  /\ newPc = "transport"
  /\ \E ok \in BOOLEAN :
       IF ok
         THEN /\ built' = built \cup {"packetTransport"}
              /\ newPc' = "endpoint"
              /\ UNCHANGED panicCause
         ELSE /\ newPc' = "panicked"
              /\ panicCause' = "transport"
              /\ UNCHANGED built
  /\ UNCHANGED config
  /\ UNCHANGED << registryVars, handleVars, facadeVars, loopVars, probeVars >>

\* swim.go:96-101 and 79-82: NewMessageEndpoint, then New returns &swim.
NewEndpoint ==
  /\ newPc = "endpoint"
  /\ \E ok \in BOOLEAN :
       IF ok
         THEN /\ built' = built \cup {"messageEndpoint"}
              /\ newPc' = "ready"
              /\ UNCHANGED panicCause
         ELSE /\ newPc' = "panicked"
              /\ panicCause' = "endpoint"
              /\ UNCHANGED built
  /\ UNCHANGED config
  /\ UNCHANGED << registryVars, handleVars, facadeVars, loopVars, probeVars >>

New == NewValidate \/ NewStruct \/ NewTransport \/ NewEndpoint

(* ----------- Member Registry and Gossip Store (specification) ---------- *)

PBk(type, addr, inc) == [Type |-> type, Id |-> addr, Incarnation |-> inc]

\* The entries of store s that are not about member addr, in order.
RECURSIVE DropSubject(_, _)
DropSubject(s, addr) ==
  IF s = <<>> THEN <<>>
  ELSE IF Head(s).pbk.Id = addr THEN DropSubject(Tail(s), addr)
  ELSE <<Head(s)>> \o DropSubject(Tail(s), addr)

\* PriorityPBStore.Push: the record replaces the pending one about the same
\* member and gets the highest priority (most recent first) with
\* MaxlocalCount replays left.
StorePush(s, pbk) ==
  <<[pbk |-> pbk, left |-> config.MaxlocalCount]>> \o DropSubject(s, pbk.Id)

\* PriorityPBStore.Get, the store it leaves: the first record loses one replay
\* and is evicted when none is left.
StoreAfterGet(s) ==
  IF s = <<>> THEN s
  ELSE IF Head(s).left <= 1 THEN Tail(s)
  ELSE <<[Head(s) EXCEPT !.left = @ - 1]>> \o Tail(s)

\* MemberMap.MarkAlive / MarkSuspect / Confirm: does the registry accept the claim?
Accepts(kind, addr, inc) ==
  LET m == memberMap[addr] IN
  CASE kind = PiggyBack_Alive ->
         \/ m = NoMember
         \/ m.Status # Dead /\ inc >= m.Incarnation
    [] kind = PiggyBack_Suspect ->
         m # NoMember /\ m.Status = Alive /\ inc >= m.Incarnation
    [] kind = PiggyBack_Confirm ->
         m # NoMember /\ m.Status # Dead /\ inc >= m.Incarnation

StatusOf(kind) ==
  CASE kind = PiggyBack_Alive -> Alive
    [] kind = PiggyBack_Suspect -> Suspect
    [] kind = PiggyBack_Confirm -> Dead

\* An accepted claim that changes the member's status ("changed").
Changes(kind, addr, inc) ==
  /\ Accepts(kind, addr, inc)
  /\ memberMap[addr].Status # StatusOf(kind)

\* A status claim reaches the registry (MarkAlive, MarkSuspect or Confirm,
\* called by the package outside swim.go); a transition that changes the status
\* emits its PiggyBack record into the Gossip Store.
RegistryMark ==
  /\ Running
  /\ regOps < MaxRegistryOps
  /\ \E kind \in {PiggyBack_Alive, PiggyBack_Suspect, PiggyBack_Confirm},
        addr \in Addrs, inc \in Incarnations :
       /\ Accepts(kind, addr, inc)
       /\ memberMap' = [memberMap EXCEPT
                          ![addr] = [Status |-> StatusOf(kind), Incarnation |-> inc]]
       /\ priorityPBStore' =
            IF Changes(kind, addr, inc)
              THEN StorePush(priorityPBStore, PBk(kind, addr, inc))
              ELSE priorityPBStore
  /\ regOps' = regOps + 1
  /\ UNCHANGED order
  /\ UNCHANGED << newVars, handleVars, facadeVars, loopVars, probeVars >>

\* The sequences that hold every element of S exactly once.
Perms(S) ==
  { p \in [1..Cardinality(S) -> S] : \A x \in S : \E i \in DOMAIN p : p[i] = x }

\* MemberMap.GetMembers: copies of the members, in the round's iteration order.
RECURSIVE SnapshotOf(_)
SnapshotOf(o) ==
  IF o = <<>> THEN <<>>
  ELSE IF memberMap[Head(o)] = NoMember THEN SnapshotOf(Tail(o))
  ELSE << [Address     |-> Head(o),
           Status      |-> memberMap[Head(o)].Status,
           Incarnation |-> memberMap[Head(o)].Incarnation] >>
         \o SnapshotOf(Tail(o))

GetMembers == SnapshotOf(order)

(* ------------------------------ facade --------------------------------- *)

\* swim.go:105-107: Start has an empty body.
Start ==
  /\ Running
  /\ ~startCalled
  /\ startCalled' = TRUE
  /\ UNCHANGED << joinResult, shutDowns, sfdCaller >>
  /\ UNCHANGED << newVars, registryVars, handleVars, loopVars, probeVars >>

\* swim.go:110-112: Join returns nil; attempted are the seeds it dialled and
\* exchanged those it exchanged membership with.
Join ==
  /\ Running
  /\ \E peerAddresses \in SeedLists :
       joinResult' = Ref([peers |-> peerAddresses, attempted |-> <<>>,
                          exchanged |-> {}, err |-> "nil"])
  /\ UNCHANGED << startCalled, shutDowns, sfdCaller >>
  /\ UNCHANGED << newVars, registryVars, handleVars, loopVars, probeVars >>

\* swim.go:120-122, first half: ShutDown blocks in s.quitFD <- struct{}{}
\* (quitFD is unbuffered).
ShutDown ==
  /\ Running
  /\ shutDowns.blocked + shutDowns.returned < MaxShutDowns
  /\ shutDowns' = [shutDowns EXCEPT !.blocked = @ + 1]
  /\ UNCHANGED << startCalled, joinResult, sfdCaller >>
  /\ UNCHANGED << newVars, registryVars, handleVars, loopVars, probeVars >>

\* The rendezvous on quitFD: a blocked ShutDown's send (swim.go:121) meets the
\* receive at the end of startFailureDetector (swim.go:160); both return.
QuitRendezvous ==
  /\ Running
  /\ shutDowns.blocked > 0
  /\ sfdCaller = "waiting"
  /\ shutDowns' = [blocked |-> shutDowns.blocked - 1,
                   returned |-> shutDowns.returned + 1]
  /\ sfdCaller' = "returned"
  /\ UNCHANGED << startCalled, joinResult >>
  /\ UNCHANGED << newVars, registryVars, handleVars, loopVars, probeVars >>

(* ------------------------- failure detector ---------------------------- *)

\* swim.go:145-160: startFailureDetector launches the loop goroutine and then
\* waits in <-s.quitFD.  It is called at most once.
startFailureDetector ==
  /\ Running
  /\ fdPc = "none"
  /\ fdPc' = "top"
  /\ sfdCaller' = "waiting"
  /\ UNCHANGED << members, idx >>
  /\ UNCHANGED << startCalled, joinResult, shutDowns >>
  /\ UNCHANGED << newVars, registryVars, handleVars, probeVars >>

\* swim.go:148-151: the top of the for loop: members := s.memberMap.GetMembers().
LoopGetMembers ==
  /\ Running
  /\ fdPc = "top"
  /\ members' = GetMembers
  /\ idx' = 1
  /\ fdPc' = "range"
  /\ UNCHANGED << newVars, registryVars, handleVars, facadeVars, probeVars >>

\* ProbeEnter without the check for a Dead member.
ProbeEnterNoDeadCheck ==
  /\ Running
  /\ fdPc = "range"
  /\ idx <= Len(members)
  /\ endCh' = NoChan
  /\ helper' = HelperSleepMs
  /\ timerT' = config.T
  /\ fdPc' = "select"
  /\ acksSeen' = {}
  /\ UNCHANGED << idx, orphans, lastProbe >>
  /\ UNCHANGED members
  /\ UNCHANGED << newVars, registryVars, handleVars, facadeVars >>

\* swim.go:175-191: probe(member) up to its select: a Dead member returns at
\* once; otherwise the end channel is made, the helper goroutine launched and
\* the timer T armed.
ProbeEnter ==
  /\ Running
  /\ fdPc = "range"
  /\ idx <= Len(members)
  /\ IF members[idx].Status = Dead
       THEN /\ lastProbe' = Ref([member |-> members[idx], outcome |-> "skipped"])
            /\ idx' = idx + 1
            /\ UNCHANGED << fdPc, endCh, helper, timerT, orphans, acksSeen >>
       ELSE /\ endCh' = NoChan
            /\ helper' = HelperSleepMs
            /\ timerT' = config.T
            /\ fdPc' = "select"
            /\ acksSeen' = {}
            /\ UNCHANGED << idx, orphans, lastProbe >>
  /\ UNCHANGED members
  /\ UNCHANGED << newVars, registryVars, handleVars, facadeVars >>

\* swim.go:184-189: the helper goroutine of the running probe wakes up and
\* sends on end (capacity 1, still open while the probe is in its select).
HelperSend ==
  /\ Running
  /\ fdPc = "select"
  /\ helper = 0
  /\ endCh' = [endCh EXCEPT !.buf = 1]
  /\ helper' = -1
  /\ UNCHANGED << timerT, orphans, lastProbe, acksSeen >>
  /\ UNCHANGED << newVars, registryVars, handleVars, facadeVars, loopVars >>

\* ProbeEnded with the bodies of the two select cases exchanged: the member is
\* marked Suspect when the probe ends.
ProbeEndedMarksSuspect ==
  /\ Running
  /\ fdPc = "select"
  /\ endCh.buf = 1
  /\ lastProbe' = Ref([member |-> members[idx], outcome |-> "ended"])
  /\ endCh' = [buf |-> 0, closed |-> TRUE]
  /\ timerT' = -1
  /\ idx' = idx + 1
  /\ fdPc' = "range"
  /\ LET a == members[idx].Address IN
       IF Changes(PiggyBack_Suspect, a, memberMap[a].Incarnation)
         THEN /\ memberMap' = [memberMap EXCEPT ![a].Status = Suspect]
              /\ priorityPBStore' =
                   StorePush(priorityPBStore,
                             PBk(PiggyBack_Suspect, a, memberMap[a].Incarnation))
         ELSE UNCHANGED << memberMap, priorityPBStore >>
  /\ UNCHANGED << helper, orphans, acksSeen, members, order, regOps >>
  /\ UNCHANGED << newVars, handleVars, facadeVars >>

\* swim.go:193-196 and 182: case <-end: return; the deferred close(end) runs.
ProbeEnded ==
  /\ Running
  /\ fdPc = "select"
  /\ endCh.buf = 1
  /\ lastProbe' = Ref([member |-> members[idx], outcome |-> "ended"])
  /\ endCh' = [buf |-> 0, closed |-> TRUE]
  /\ timerT' = -1
  /\ idx' = idx + 1
  /\ fdPc' = "range"
  /\ UNCHANGED << helper, orphans, acksSeen, members >>
  /\ UNCHANGED << newVars, registryVars, handleVars, facadeVars >>

\* swim.go:197-199 and 182: case <-T.C: return ("Suspect the member" is a
\* comment); the deferred close(end) runs, and a helper goroutine that still
\* sleeps keeps the closed channel.
ProbeTimedOut ==
  /\ Running
  /\ fdPc = "select"
  /\ timerT = 0
  /\ lastProbe' = Ref([member |-> members[idx], outcome |-> "timeout"])
  /\ endCh' = [endCh EXCEPT !.closed = TRUE]
  /\ orphans' = IF helper >= 0 THEN Append(orphans, helper) ELSE orphans
  /\ helper' = -1
  /\ timerT' = -1
  /\ idx' = idx + 1
  /\ fdPc' = "range"
  /\ UNCHANGED << members, acksSeen >>
  /\ UNCHANGED << newVars, registryVars, handleVars, facadeVars >>

\* swim.go:188 after 182: a helper goroutine of a probe that has returned wakes
\* up and sends on the closed channel: the goroutine panics and the process dies.
OrphanSend ==
  /\ Running
  /\ \E i \in DOMAIN orphans : orphans[i] = 0
  /\ panicCause' = "closedchan"
  /\ UNCHANGED << config, newPc, built >>
  /\ UNCHANGED << registryVars, handleVars, facadeVars, loopVars, probeVars >>

\* LoopReset inside the range loop: Reset may run after any probe, not only
\* after the last one of the snapshot.
LoopResetInsideRange ==
  /\ Running
  /\ fdPc = "range"
  /\ order' \in Perms(Addrs)
  /\ fdPc' = "top"
  /\ UNCHANGED << members, idx >>
  /\ UNCHANGED << memberMap, regOps, priorityPBStore >>
  /\ UNCHANGED << newVars, handleVars, facadeVars, probeVars >>

\* swim.go:151-156: the range loop is over: s.memberMap.Reset(), which
\* reshuffles the iteration order, and back to the top of the for loop.
LoopReset ==
  /\ Running
  /\ fdPc = "range"
  /\ idx > Len(members)
  /\ order' \in Perms(Addrs)
  /\ fdPc' = "top"
  /\ UNCHANGED << members, idx >>
  /\ UNCHANGED << memberMap, regOps, priorityPBStore >>
  /\ UNCHANGED << newVars, handleVars, facadeVars, probeVars >>

\* The pending timers: the running probe's helper and timer, and the orphans.
Pending ==
  (IF helper >= 0 THEN {helper} ELSE {})
    \cup (IF timerT >= 0 THEN {timerT} ELSE {})
    \cup {orphans[i] : i \in DOMAIN orphans}

Min(S) == CHOOSE x \in S : \A y \in S : x <= y

\* Time passes until the next timer expires; an expired timer is served first.
Tick ==
  /\ Running
  /\ Pending # {}
  /\ 0 \notin Pending
  /\ LET d == Min(Pending) IN
       /\ helper' = IF helper >= 0 THEN helper - d ELSE helper
       /\ timerT' = IF timerT >= 0 THEN timerT - d ELSE timerT
       /\ orphans' = [i \in DOMAIN orphans |-> orphans[i] - d]
  /\ UNCHANGED << endCh, lastProbe, acksSeen >>
  /\ UNCHANGED << newVars, registryVars, handleVars, facadeVars, loopVars >>

(* ------------------------- message dispatcher -------------------------- *)

\* A message whose oneof payload is not set.
NoPayload == "nil"

\* A piggyback type outside the enum.
PiggyBack_Unknown == "PiggyBack_Unknown"

\* The zero value of pb.PiggyBack: the enum's first value and empty fields.
ZeroPiggyBack == PBk(PiggyBack_Alive, "", 0)

\* Addresses of the peers that send messages, and their request identifiers.
Senders == {"peerA", "peerB"}
MsgIds == {"id1", "id2"}
Payloads == {"Ping", "Ack", "IndirectPing", NoPayload}

\* The piggyback of a received message: absent, or a record of any type.
InPiggyBacks ==
  {Nil} \cup { Ref(PBk(t, "m1", 1)) :
                 t \in {PiggyBack_Alive, PiggyBack_Confirm, PiggyBack_Suspect,
                        PiggyBack_Unknown} }

\* The messages the endpoint may hand to handle.
Msgs == [Id : MsgIds, Address : Senders, Payload : Payloads, PiggyBack : InPiggyBacks]

\* Go's string(n) of an int n: the string of the one rune with code point n,
\* U+FFFD when n is no valid code point.  A string is its sequence of runes.
RuneString(n) ==
  IF n \in 0..1114111 /\ n \notin 55296..57343 THEN <<n>> ELSE <<65533>>

\* swim.go:260: s.config.BindAddress + ":" + string(s.config.BindPort)
LocalAddress ==
  [host |-> config.BindAddress, sep |-> ":", port |-> RuneString(config.BindPort)]

\* swim.go:237-248: every case of handlePbk's switch is empty, so hasChanged
\* keeps the value it was declared with.
HasChanged(piggyBack) == FALSE

\* swim.go:239: handlePbk reads piggyBack.Type through the pointer it is
\* given: a nil pointer is a run-time panic.  swim.go:253-255: a changed
\* registry pushes into s.pbkStore, a nil interface.
HandlePbkPanics(piggyBack) ==
  \/ piggyBack = Nil
  \/ piggyBack # Nil /\ HasChanged(piggyBack[1]) /\ pbkStore = Nil

\* swim.go:262-265: priorityPBStore.Get(); an error (the empty store) is
\* logged and the zero record it came with is used.
GetPiggyBack ==
  IF priorityPBStore = <<>> THEN ZeroPiggyBack ELSE Head(priorityPBStore).pbk

\* swim.go:262-263: whether handling msg calls Get and Get fails (EmptyStore).
GetFails(msg) == msg.Payload = "Ping" /\ priorityPBStore = <<>>

\* swim.go:267-274: the Ack pingHandler sends; PiggyBack is &piggyBack, the
\* address of the local copy, and so never nil.
AckFor(msg) ==
  [ Id        |-> msg.Id,
    Address   |-> LocalAddress,
    Payload   |-> "Ack",
    Ack       |-> "",
    PiggyBack |-> Ref(GetPiggyBack) ]

\* swim.go:259-275: the Send calls of pingHandler; the error Send returns is
\* dropped.
PingHandlerSends(msg, sendErr) ==
  << [to |-> msg.Address, msg |-> AckFor(msg), err |-> sendErr] >>

\* swim.go:221-230: the switch on the payload type: only a Ping has a handler.
DispatchSends(msg, sendErr) ==
  IF msg.Payload = "Ping" THEN PingHandlerSends(msg, sendErr) ELSE <<>>

\* swim.go:217-231: handle(msg), called by the message endpoint for a received
\* message of the set M: handlePbk, then the dispatch on the payload type.
\* sendErr is whether the transport fails the Send.  The case for an Ack is a
\* comment, so an Ack that arrives while a probe waits reaches no probe: the
\* model only notes its request id.
handleOf(M) ==
  /\ Running
  /\ \E msg \in M :
     \E sendErr \in (IF msg.Payload = "Ping" THEN BOOLEAN ELSE {FALSE}) :
       IF HandlePbkPanics(msg.PiggyBack)
         THEN /\ handled' = Ref([msg |-> msg, outcome |-> "panicked", getErr |-> FALSE])
              /\ sent' = <<>>
              /\ panicCause' = "nilpointer"
              /\ UNCHANGED << priorityPBStore, acksSeen >>
         ELSE /\ handled' = Ref([msg |-> msg, outcome |-> "returned",
                                 getErr |-> GetFails(msg)])
              /\ sent' = DispatchSends(msg, sendErr)
              /\ priorityPBStore' =
                   IF msg.Payload = "Ping" THEN StoreAfterGet(priorityPBStore)
                                           ELSE priorityPBStore
              /\ acksSeen' = IF msg.Payload = "Ack" /\ fdPc = "select"
                               THEN acksSeen \cup {msg.Id} ELSE acksSeen
              /\ UNCHANGED panicCause
  /\ UNCHANGED << config, newPc, built, pbkStore >>
  /\ UNCHANGED << memberMap, order, regOps >>
  /\ UNCHANGED << facadeVars, loopVars >>
  /\ UNCHANGED << endCh, helper, timerT, orphans, lastProbe >>

\* handle for any message the endpoint may deliver.
handle == handleOf(Msgs)

\* The Acks a probed member may answer with, piggyback attached.
AckMsgs ==
  { msg \in Msgs : /\ msg.Payload = "Ack"
                   /\ msg.Address = "peerA"
                   /\ msg.PiggyBack = Ref(PBk(PiggyBack_Alive, "m1", 1)) }

\* handle for an Ack.
handleAck == handleOf(AckMsgs)

(* --------------------------- specification ----------------------------- *)

Init ==
  /\ config \in Configs
  /\ newPc = "call"
  /\ panicCause = "none"
  /\ built = {}
  /\ memberMap = [a \in Addrs |-> NoMember]
  /\ order = InitialOrder
  /\ regOps = 0
  /\ priorityPBStore = <<>>
  /\ pbkStore = Nil
  /\ handled = Nil
  /\ sent = <<>>
  /\ startCalled = FALSE
  /\ joinResult = Nil
  /\ shutDowns = [blocked |-> 0, returned |-> 0]
  /\ sfdCaller = "none"
  /\ fdPc = "none"
  /\ members = <<>>
  /\ idx = 1
  /\ endCh = NoChan
  /\ helper = -1
  /\ timerT = -1
  /\ orphans = <<>>
  /\ lastProbe = Nil
  /\ acksSeen = {}

Next ==
  \/ New
  \/ RegistryMark
  \/ Start
  \/ Join
  \/ ShutDown
  \/ QuitRendezvous
  \/ startFailureDetector
  \/ LoopGetMembers
  \/ ProbeEnter
  \/ HelperSend
  \/ ProbeEnded
  \/ ProbeTimedOut
  \/ OrphanSend
  \/ LoopReset
  \/ Tick

Spec == Init /\ [][Next]_vars

\* The message dispatcher on its own: construction, the registry and handle.
NextHandle ==
  \/ New
  \/ RegistryMark
  \/ handle

HandleSpec == Init /\ [][NextHandle]_vars

\* The failure detector together with the Acks the endpoint delivers.
NextAck ==
  \/ New
  \/ RegistryMark
  \/ startFailureDetector
  \/ LoopGetMembers
  \/ ProbeEnter
  \/ HelperSend
  \/ ProbeEnded
  \/ ProbeTimedOut
  \/ OrphanSend
  \/ LoopReset
  \/ Tick
  \/ handleAck

AckSpec == Init /\ [][NextAck]_vars

\* The steps of the loop goroutine, of the helper goroutines and of the clock.
FailureDetectorStep ==
  \/ LoopGetMembers
  \/ ProbeEnter
  \/ HelperSend
  \/ ProbeEnded
  \/ ProbeTimedOut
  \/ OrphanSend
  \/ LoopReset
  \/ Tick

\* Spec under Go's scheduling: a goroutine that can run does run, so New goes
\* on to its end, a send and a receive that meet on quitFD complete, and the
\* loop, the helpers and the clock go on.  What the caller of the library
\* does (Start, Join, ShutDown, startFailureDetector) is under no obligation.
FairSpec ==
  /\ Spec
  /\ WF_vars(New)
  /\ WF_vars(QuitRendezvous)
  /\ WF_vars(FailureDetectorStep)

(* ------------------------------ claims --------------------------------- *)

\* C1: New fails fatally with the configuration error for every configuration
\* with T <= AckTimeOut, the boundary T = AckTimeOut included; it goes on to
\* build a SWIM value only when T > AckTimeOut.
C1_NewRejectsTUpToAckTimeOut ==
  (config.T <= config.AckTimeOut /\ newPc # "call")
    => (newPc = "panicked" /\ panicCause = "config")

\* C2: when New is called with T < AckTimeOut, the configuration error is
\* raised before anything else happens: no member map, gossip store, quit
\* channel, packet transport or message endpoint is created, the registry
\* and the store hold nothing, and no message is handled or sent.
C2_ConfigErrorBeforeAnyActivity ==
  (config.T < config.AckTimeOut /\ newPc # "call")
    => /\ newPc = "panicked"
       /\ panicCause = "config"
       /\ built = {}
       /\ sent = <<>>
       /\ handled = Nil
       /\ \A a \in Addrs : memberMap[a] = NoMember
       /\ priorityPBStore = <<>>

\* New(T = 50, AckTimeOut = 100) has ended in the configuration error.
C2_Witness ==
  /\ config.T = 50
  /\ config.AckTimeOut = 100
  /\ newPc = "panicked"
  /\ panicCause = "config"

\* C3: once a ShutDown has been delivered while the failure detector of a
\* validly configured SWIM runs, the round loop stops at its next iteration
\* boundary: from the top of the for loop it takes no new snapshot, so no
\* further probe starts and Reset is not called again.
C3_LoopStopsAtNextBoundary ==
  [][ ( /\ config.T > config.AckTimeOut
        /\ shutDowns.returned > 0
        /\ fdPc = "top" )
      => fdPc' = "top" ]_vars

\* C4: with T > AckTimeOut, a probe of a member that returns because its
\* timer T fired (no Ack came) leaves the member Suspect in the registry.
C4_TimedOutProbeMarksSuspect ==
  [][ ( /\ config.T > config.AckTimeOut
        /\ fdPc = "select"
        /\ fdPc' = "range"
        /\ lastProbe'[1].outcome = "timeout"
        /\ memberMap[members[idx].Address].Status \in {Alive, Suspect} )
      => memberMap'[members[idx].Address].Status = Suspect ]_vars

\* C5: the probe of a member whose status is Dead returns at once: the loop
\* moves to the next member, and no message is sent, no channel, helper
\* goroutine or timer is created and the registry and both stores stay as
\* they are.
C5_DeadProbeReturnsAtOnce ==
  [][ ( /\ fdPc = "range"
        /\ idx <= Len(members)
        /\ members[idx].Status = Dead
        /\ << fdPc, idx >>' # << fdPc, idx >> )
      => /\ fdPc' = "range"
         /\ idx' = idx + 1
         /\ lastProbe' = Ref([member |-> members[idx], outcome |-> "skipped"])
         /\ UNCHANGED << endCh, helper, timerT, orphans >>
         /\ UNCHANGED << sent, handled >>
         /\ UNCHANGED << memberMap, order, priorityPBStore, pbkStore >> ]_vars

\* A probe of a Dead member has returned.
C5_Witness ==
  /\ lastProbe # Nil
  /\ lastProbe[1].outcome = "skipped"
  /\ lastProbe[1].member.Status = Dead

\* C6: a probe that completes through its end channel (the signal that stands
\* for the Ack) before the timer fires changes no member's status and puts no
\* record into either store: neither the arrival of the signal nor the
\* probe's return touches the registry.
C6_EndedProbeChangesNothing ==
  [][ ( \/ fdPc = "select" /\ endCh.buf = 0 /\ endCh'.buf = 1
        \/ fdPc = "select" /\ fdPc' = "range" /\ lastProbe'[1].outcome = "ended" )
      => UNCHANGED << memberMap, priorityPBStore, pbkStore >> ]_vars

\* A probe of an Alive member has completed through its end channel, and the
\* member is still Alive.
C6_Witness ==
  /\ lastProbe # Nil
  /\ lastProbe[1].outcome = "ended"
  /\ lastProbe[1].member.Status = Alive
  /\ memberMap[lastProbe[1].member.Address].Status = Alive
  /\ priorityPBStore # <<>>

\* C7: once Start has returned on a validly configured SWIM whose registry
\* holds a member that is not Dead, the round loop of the failure detector
\* has been launched.
C7_StartBeginsRoundLoop ==
  ( /\ config.T > config.AckTimeOut
    /\ startCalled
    /\ \E a \in Addrs : memberMap[a].Status \in {Alive, Suspect} )
    => fdPc # "none"

\* C8: a Join with seeds, on a validly configured SWIM, that returns no error
\* has exchanged membership with at least one seed, and it has attempted each
\* of its seeds.
C8_JoinFailsWhenNoSeedSucceeds ==
  (config.T > config.AckTimeOut /\ joinResult # Nil /\ joinResult[1].peers # <<>>)
    => /\ joinResult[1].err = "nil" => joinResult[1].exchanged # {}
       /\ joinResult[1].attempted = joinResult[1].peers

\* C9: handle answers every Ping with exactly one Ack, sent to the Ping's
\* sender address with the Ping's id and the next record of the gossip store,
\* and returns whether or not the transport reports an error.
C9_PingAnsweredByOneAck ==
  (config.T > config.AckTimeOut /\ handled # Nil /\ handled[1].msg.Payload = "Ping")
    => /\ handled[1].outcome = "returned"
       /\ Len(sent) = 1
       /\ sent[1].to = handled[1].msg.Address
       /\ sent[1].msg.Payload = "Ack"
       /\ sent[1].msg.Id = handled[1].msg.Id

\* C10: when Get fails on the empty store while a Ping is handled, the Ack is
\* still sent and its piggyback field is absent.
C10_EmptyStoreAckHasNoPiggyBack ==
  ( /\ config.T > config.AckTimeOut
    /\ handled # Nil
    /\ handled[1].outcome = "returned"
    /\ handled[1].getErr )
    => /\ Len(sent) = 1
       /\ sent[1].msg.Payload = "Ack"
       /\ sent[1].msg.PiggyBack = Nil

\* C11: a received message without a piggyback is handled without failure: it
\* changes neither the registry nor a store through the piggyback step and is
\* still dispatched on its payload, so that a Ping among them is answered
\* with one Ack.
C11_NoPiggyBackIsHandled ==
  ( /\ config.T > config.AckTimeOut
    /\ handled # Nil
    /\ handled[1].msg.PiggyBack = Nil )
    => /\ handled[1].outcome = "returned"
       /\ panicCause = "none"
       /\ handled[1].msg.Payload = "Ping"
            => (Len(sent) = 1 /\ sent[1].msg.Payload = "Ack")

\* C12: when handle is given a piggyback record that the registry accepts
\* with a change of status, the registry takes the new status and the record
\* is pushed into the store that outgoing Acks draw their piggyback from
\* (priorityPBStore), where a later Get finds it.
C12_ChangingRecordIsPushed ==
  [][ ( /\ config.T > config.AckTimeOut
        /\ handled' # handled
        /\ handled'[1].msg.PiggyBack # Nil
        /\ handled'[1].msg.PiggyBack[1].Type
             \in {PiggyBack_Alive, PiggyBack_Confirm, PiggyBack_Suspect}
        /\ Changes(handled'[1].msg.PiggyBack[1].Type,
                   handled'[1].msg.PiggyBack[1].Id,
                   handled'[1].msg.PiggyBack[1].Incarnation) )
      => /\ memberMap'[handled'[1].msg.PiggyBack[1].Id].Status
              = StatusOf(handled'[1].msg.PiggyBack[1].Type)
         /\ \E i \in DOMAIN priorityPBStore' :
              priorityPBStore'[i].pbk = handled'[1].msg.PiggyBack[1] ]_vars

\* C13: the probe of the next member of the snapshot starts without waiting
\* for the probe of an earlier member to finish: while one probe waits in its
\* select and the snapshot has a further member, the loop is able to enter
\* the next probe.
C13_NextProbeNeedNotWait ==
  ( /\ config.T > config.AckTimeOut
    /\ panicCause = "none"
    /\ fdPc = "select"
    /\ idx < Len(members) )
    => ENABLED ProbeEnter

\* C14: an Ack received while a probe is in flight, carrying that probe's
\* request id, reaches the probe's wait point and completes the probe as
\* acknowledged.  probe gives its request no id, so whichever id it is taken
\* to be: once Acks with every id have been dispatched during one wait, the
\* wait point has been signalled.
C14_AckCompletesProbe ==
  ( /\ config.T > config.AckTimeOut
    /\ panicCause = "none"
    /\ fdPc = "select"
    /\ acksSeen = MsgIds )
    => endCh.buf = 1

\* C15: once a probe has waited longer than AckTimeOut without being
\* acknowledged, it has sent an IndirectPing that names the probed member to
\* members other than the probed one (here: whenever the snapshot holds
\* another member to ask).
C15_UnackedProbeSendsIndirectPings ==
  ( /\ config.T > config.AckTimeOut
    /\ panicCause = "none"
    /\ fdPc = "select"
    /\ endCh.buf = 0
    /\ timerT >= 0
    /\ config.T - timerT > config.AckTimeOut
    /\ Len(members) >= 2 )
    => \E i \in DOMAIN sent :
         /\ sent[i].msg.Payload = "IndirectPing"
         /\ sent[i].to # members[idx].Address

\* C16: a round takes one snapshot with GetMembers, probes the snapshot's
\* members one after the other in snapshot order, each exactly once, and
\* calls Reset once, after the probe of the last member has returned; the
\* snapshot is not retaken inside the round, so a member added meanwhile is
\* not probed before a later round.
C16_RoundProbesSnapshotInOrder ==
  [][ /\ (fdPc = "top" /\ fdPc' # "top")
           => (fdPc' = "range" /\ members' = GetMembers /\ idx' = 1)
      /\ (members' # members) => fdPc = "top"
      /\ (idx' # idx)
           => \/ fdPc = "top" /\ idx' = 1
              \/ /\ fdPc \in {"range", "select"}
                 /\ idx <= Len(members)
                 /\ idx' = idx + 1
                 /\ lastProbe' # Nil
                 /\ lastProbe'[1].member = members[idx]
      /\ (fdPc # "select" /\ fdPc' = "select")
           => (fdPc = "range" /\ idx <= Len(members) /\ idx' = idx)
      /\ (fdPc = "select" /\ fdPc' # "select")
           => (fdPc' = "range" /\ idx' = idx + 1)
      /\ (fdPc = "range" /\ idx > Len(members))
           => (fdPc' \in {"range", "top"} /\ idx' = idx)
      /\ (fdPc = "range" /\ fdPc' = "top")
           => (idx > Len(members) /\ order' \in Perms(Addrs)) ]_vars

\* A round whose last probe has returned, Reset still to come, while the
\* registry holds a member that joined after the snapshot was taken.
C16_Witness ==
  /\ fdPc = "range"
  /\ Len(members) >= 1
  /\ idx > Len(members)
  /\ lastProbe # Nil
  /\ lastProbe[1].member = members[Len(members)]
  /\ \E a \in Addrs :
       /\ memberMap[a] # NoMember
       /\ \A i \in DOMAIN members : members[i].Address # a

\* C17: a received message whose payload type is unknown is ignored without
\* failure, and so is the unknown piggyback type of a message that asks for
\* no answer: handle returns, sends nothing and leaves the registry and the
\* stores as they were.
C17_UnknownTypesAreIgnored ==
  [][ ( /\ config.T > config.AckTimeOut
        /\ handled' # handled
        /\ \/ handled'[1].msg.Payload = NoPayload
           \/ /\ handled'[1].msg.Payload # "Ping"
              /\ handled'[1].msg.PiggyBack # Nil
              /\ handled'[1].msg.PiggyBack[1].Type = PiggyBack_Unknown )
      => /\ handled'[1].outcome = "returned"
         /\ panicCause' = "none"
         /\ sent' = <<>>
         /\ UNCHANGED << memberMap, priorityPBStore, pbkStore >> ]_vars

\* C18: for every T that New accepts, nothing sends on a probe's end channel
\* after the probe has closed it: no helper goroutine outlives its probe to
\* panic on the closed channel, so the process survives a probe's time-out.
\* Stated for the accepted T that leave no tie between the timer and the
\* helper's sleep: those below the sleep.
C18_NoSendOnClosedEnd ==
  (config.T > config.AckTimeOut /\ config.T < HelperSleepMs)
    => panicCause # "closedchan"

\* C19: every call of ShutDown eventually returns (unless the process has
\* died meanwhile): the first call and a later one, with the failure detector
\* started or not.
C19_ShutDownReturns ==
  \A n \in 1..MaxShutDowns :
    ( /\ config.T > config.AckTimeOut
      /\ shutDowns.blocked + shutDowns.returned >= n )
      ~> (shutDowns.returned >= n \/ panicCause # "none")

\* The decimal representation of a natural number, as the sequence of the
\* code points of its digits.
RECURSIVE DecimalString(_)
DecimalString(n) ==
  IF n < 10 THEN << 48 + n >>
            ELSE DecimalString(n \div 10) \o << 48 + (n % 10) >>

\* C20: the sender address of every Ack that pingHandler sends is
\* BindAddress, a colon and the decimal representation of BindPort.
C20_AckAddressHasDecimalPort ==
  ( /\ config.T > config.AckTimeOut
    /\ sent # <<>>
    /\ sent[1].msg.Payload = "Ack" )
    => sent[1].msg.Address = [ host |-> config.BindAddress,
                               sep  |-> ":",
                               port |-> DecimalString(config.BindPort) ]

====
